---- MODULE Spec2Model ----
(***************************************************************************)
(* A model of the campus assistant's retrieval core:                       *)
(*   scraper/scraper.py       crawl_website, save_crawled_text             *)
(*   embeddings/vector_store.py  load_corpus_text, save_index,             *)
(*                               load_index_and_texts, create_vector_store *)
(*   chatbot/rag_pipeline.py  RAGPipeline                                  *)
(*   app.py                   _load_rag, main                              *)
(*                                                                         *)
(* A Python str is a sequence of one-character strings; the literal parts  *)
(* of the prompt template and the fixed answer, which the code only        *)
(* concatenates and returns, are one fragment each.  Python's 0-based list *)
(* positions are the model's 1-based positions minus one.                  *)
(***************************************************************************)
EXTENDS Integers, Sequences, FiniteSets, TLC

\* ------------------------------------------------------------------------
\* Characters and the str methods the code uses
\* ------------------------------------------------------------------------

NL == "\n"

LowerLetters == {"a", "b", "c", "d", "z"}
UpperLetters == {"A", "B"}
SpaceChars == {" ", NL}

\* str.isalpha() of one character
IsAlpha(ch) == ch \in LowerLetters \cup UpperLetters

\* str.isspace() of one character
IsSpace(ch) == ch \in SpaceChars

\* str.lower() of one character
LowerChar(ch) == IF ch = "A" THEN "a" ELSE IF ch = "B" THEN "b" ELSE ch

\* str.lower()
Lower(s) == [i \in 1..Len(s) |-> LowerChar(s[i])]

\* str.isalpha(): every character alphabetic and at least one character
IsAlphaStr(s) == Len(s) > 0 /\ \A i \in 1..Len(s) : IsAlpha(s[i])

\* sum(ch.isalpha() for ch in b)
AlphaCount(s) == Cardinality({i \in 1..Len(s) : IsAlpha(s[i])})

SetMin(S) == CHOOSE x \in S : \A y \in S : x <= y
SetMax(S) == CHOOSE x \in S : \A y \in S : x >= y

\* str.strip(): leading and trailing whitespace removed
Strip(s) ==
    LET keep == {i \in 1..Len(s) : ~IsSpace(s[i])}
    IN  IF keep = {} THEN <<>> ELSE SubSeq(s, SetMin(keep), SetMax(keep))

\* the positions at which sub occurs in s
Occurrences(s, sub) ==
    {i \in 1..(Len(s) - Len(sub) + 1) : SubSeq(s, i, i + Len(sub) - 1) = sub}

\* str.split(sep) for a non-empty separator: the text up to the first
\* occurrence of sep is a piece (an empty one included), and the scan goes on
\* after that occurrence, so occurrences never overlap.
RECURSIVE SplitOn(_, _)
SplitOn(s, sep) ==
    LET hits == Occurrences(s, sep)
    IN  IF hits = {} THEN <<s>>
        ELSE LET i == SetMin(hits)
             IN  <<SubSeq(s, 1, i - 1)>>
                     \o SplitOn(SubSeq(s, i + Len(sep), Len(s)), sep)

\* str.split() with no argument: runs of whitespace separate the words and no
\* empty word is produced.
RECURSIVE SplitWords(_)
SplitWords(s) ==
    LET starts == {i \in 1..Len(s) : ~IsSpace(s[i])}
    IN  IF starts = {} THEN <<>>
        ELSE LET b == SetMin(starts)
                 stops == {i \in b..Len(s) : IsSpace(s[i])}
                 e == IF stops = {} THEN Len(s) + 1 ELSE SetMin(stops)
             IN  <<SubSeq(s, b, e - 1)>> \o SplitWords(SubSeq(s, e, Len(s)))

\* str.count(sub) for a non-empty sub: each occurrence counted is the first
\* one after the previous occurrence's end, so occurrences never overlap.
RECURSIVE StrCount(_, _)
StrCount(s, sub) ==
    LET hits == Occurrences(s, sub)
    IN  IF hits = {} THEN 0
        ELSE 1 + StrCount(SubSeq(s, SetMin(hits) + Len(sub), Len(s)), sub)

\* sep.join(parts)
RECURSIVE Join(_, _)
Join(sep, parts) ==
    IF parts = <<>> THEN <<>>
    ELSE IF Len(parts) = 1 THEN parts[1]
    ELSE parts[1] \o sep \o Join(sep, Tail(parts))

\* ch * n
Repeat(ch, n) == [i \in 1..n |-> ch]

\* sum of a sequence of numbers
RECURSIVE SumSeq(_)
SumSeq(ns) == IF ns = <<>> THEN 0 ELSE Head(ns) + SumSeq(Tail(ns))

\* ------------------------------------------------------------------------
\* scraper/scraper.py: crawl_website's helpers and save_crawled_text
\* ------------------------------------------------------------------------

\* A URL or an href is its scheme, network location, path and fragment, each
\* "" when it has none: urlparse's view of the string.
NoUrl == [scheme |-> "", netloc |-> "", path |-> "", fragment |-> ""]

\* _normalize_url(url): urldefrag drops the fragment
normalize_url(url) == [url EXCEPT !.fragment = ""]

\* urljoin(base, href) for a base without fragment: an href with a scheme
\* stands for itself, one with a network location takes the scheme of the
\* base, any other takes scheme and network location of the base, and its
\* path too when it has none of its own.
urljoin(base, href) ==
    IF href.scheme # "" THEN href
    ELSE IF href.netloc # "" THEN [href EXCEPT !.scheme = base.scheme]
    ELSE [scheme   |-> base.scheme,
          netloc   |-> base.netloc,
          path     |-> IF href.path = "" THEN base.path ELSE href.path,
          fragment |-> href.fragment]

\* _is_same_domain(url, base_netloc)
is_same_domain(url, base_netloc) ==
    IF url.netloc = "" THEN TRUE ELSE url.netloc = base_netloc

\* absolute_url.startswith(("mailto:", "tel:"))
StartsWithMailtoOrTel(url) == url.scheme \in {"mailto", "tel"}

\* absolute_url.startswith("http")
StartsWithHttp(url) == url.scheme \in {"http", "https"}

\* The body of the loop over the links of a page, lines 77-88: the URLs the
\* hrefs add to the queue, in the order of the hrefs
RECURSIVE queue_links(_, _, _, _, _)
queue_links(queue, hrefs, url, base_netloc, visited) ==
    IF hrefs = <<>> THEN queue
    ELSE LET absolute_url == normalize_url(urljoin(url, Head(hrefs)))
             queued ==
                 IF StartsWithMailtoOrTel(absolute_url) THEN queue
                 ELSE IF ~StartsWithHttp(absolute_url) THEN queue
                 ELSE IF ~is_same_domain(absolute_url, base_netloc) THEN queue
                 ELSE IF absolute_url \notin visited
                      THEN Append(queue, absolute_url)
                      ELSE queue
         IN  queue_links(queued, Tail(hrefs), url, base_netloc, visited)

\* extract_visible_text(html), html.lines being the lines of the text of the
\* document outside the elements that are removed: the lines are stripped,
\* the empty ones dropped and the rest joined by newlines
extract_visible_text(html) ==
    LET lines == [i \in 1..Len(html.lines) |-> Strip(html.lines[i])]
    IN  Join(<<NL>>, SelectSeq(lines, LAMBDA line : Len(line) > 0))

\* "=" * 80
SEPARATOR_WIDTH == 80

\* "\n\n" + "=" * 80 + "\n\n"
PageSeparator == <<NL, NL>> \o Repeat("=", SEPARATOR_WIDTH) \o <<NL, NL>>

\* The text save_crawled_text writes to the output file: the pages with the
\* separator between them and none after the last.
save_crawled_text(pages_text) == Join(PageSeparator, pages_text)

\* ------------------------------------------------------------------------
\* embeddings/vector_store.py: load_corpus_text
\* ------------------------------------------------------------------------

\* alpha_ratio < 0.1, where alpha_ratio = alpha / max(len(b), 1).  The quotient
\* of two integers is below one tenth exactly when ten times the numerator is
\* below the denominator.
MaxInt(a, b) == IF a >= b THEN a ELSE b

\* The same test with a ratio of exactly one tenth dropped too
AlphaRatioTooLow_inclusive(b) == 10 * AlphaCount(b) <= MaxInt(Len(b), 1)

AlphaRatioTooLow(b) == 10 * AlphaCount(b) < MaxInt(Len(b), 1)

\* blocks = [b.strip() for b in raw.split("\n\n") if b.strip()]
StrippedBlocks(raw) ==
    LET pieces == SplitOn(raw, <<NL, NL>>)
        stripped == [i \in 1..Len(pieces) |-> Strip(pieces[i])]
    IN  SelectSeq(stripped, LAMBDA b : b # <<>>)

load_corpus_text(raw) ==
    SelectSeq(StrippedBlocks(raw), LAMBDA b : ~AlphaRatioTooLow(b))

\* ------------------------------------------------------------------------
\* chatbot/rag_pipeline.py: keyword_retrieve
\* ------------------------------------------------------------------------

\* RAGConfig.top_k
top_k == 3

\* len(w) >= 4
MIN_TERM_LEN == 4

\* The same filter without w.isalpha()
TermParticipates_any_character(w) == Len(w) >= MIN_TERM_LEN

\* the filter of the query_terms comprehension
TermParticipates(w) == Len(w) >= MIN_TERM_LEN /\ IsAlphaStr(w)

\* query_terms = [w.lower() for w in query.split() if len(w) >= 4 and w.isalpha()]
query_terms(query) ==
    LET words == SelectSeq(SplitWords(query), TermParticipates)
    IN  [i \in 1..Len(words) |-> Lower(words[i])]

\* score = sum(tl.count(term) for term in query_terms), tl = t.lower()
keyword_score(t, terms) ==
    LET tl == Lower(t)
    IN  SumSeq([i \in 1..Len(terms) |-> StrCount(tl, terms[i])])

\* scored: the (score, text) pairs of the chunks with a positive score, in
\* chunk order
scored_chunks(texts, terms) ==
    LET pairs == [i \in 1..Len(texts) |->
                    [score |-> keyword_score(texts[i], terms), text |-> texts[i]]]
    IN  SelectSeq(pairs, LAMBDA p : p.score > 0)

\* list.sort(key=lambda x: x[0], reverse=True): a stable sort, so pairs of
\* equal score keep their order.  Insertion after every pair whose score is
\* not smaller.
RECURSIVE InsertByScore(_, _)
InsertByScore(sorted, p) ==
    IF sorted = <<>> THEN <<p>>
    ELSE IF Head(sorted).score >= p.score
         THEN <<Head(sorted)>> \o InsertByScore(Tail(sorted), p)
         ELSE <<p>> \o sorted

RECURSIVE SortByScoreDesc(_, _)
SortByScoreDesc(pairs, acc) ==
    IF pairs = <<>> THEN acc
    ELSE SortByScoreDesc(Tail(pairs), InsertByScore(acc, Head(pairs)))

\* seq[:n]
Take(seq, n) == SubSeq(seq, 1, IF n < Len(seq) THEN n ELSE Len(seq))

\* keyword_retrieve without the sort of line 108
keyword_retrieve_unsorted(texts, query, max_results) ==
    LET terms == query_terms(query)
        scored == scored_chunks(texts, terms)
        ranked == Take(scored, max_results)
    IN  IF terms = <<>> THEN <<>>
        ELSE IF scored = <<>> THEN <<>>
        ELSE [i \in 1..Len(ranked) |-> ranked[i].text]

\* keyword_retrieve(query, max_results) with self.texts = texts; max_results
\* is top_k when the caller gives none
keyword_retrieve(texts, query, max_results) ==
    LET terms == query_terms(query)
        scored == scored_chunks(texts, terms)
        ranked == Take(SortByScoreDesc(scored, <<>>), max_results)
    IN  IF terms = <<>> THEN <<>>
        ELSE IF scored = <<>> THEN <<>>
        ELSE [i \in 1..Len(ranked) |-> ranked[i].text]

\* ------------------------------------------------------------------------
\* chatbot/rag_pipeline.py: retrieve, build_context, generate_answer
\* ------------------------------------------------------------------------

\* Similarity scores are in hundredths: 15 is the code's 0.15, 100 its 1.0.
THRESHOLD == 15
FALLBACK_SCORE == 100

\* The ordinal FAISS returns where the index holds fewer than k vectors: the
\* code's -1, shifted by one as every ordinal is.
NO_MATCH == 0

\* The scores the encoder and the index can give a (query, chunk) pair: below
\* the threshold, exactly at it, above it.
ScoreLevels == {14, 15, 40}

\* index.search(query_vec, k): the k best (ordinal, score) pairs, best first,
\* padded with NO_MATCH when the index holds fewer than k vectors.  sc[i] is
\* the inner product of the query with vector i.  Vectors of equal score come
\* in the order of their ordinals.
index_search(ntotal, sc, k) ==
    LET all == [i \in 1..ntotal |-> [score |-> sc[i], idx |-> i]]
        best == Take(SortByScoreDesc(all, <<>>), k)
    IN  [j \in 1..k |-> IF j <= Len(best) THEN best[j]
                        ELSE [score |-> 0, idx |-> NO_MATCH]]

SeqMax(ns) == SetMax({ns[i] : i \in 1..Len(ns)})

\* if not chunks or max(chunk_scores, default=0.0) < 0.15
WeakSemantic(chunks, chunk_scores) ==
    chunks = <<>> \/ SeqMax(chunk_scores) < THRESHOLD

\* retrieve from line 73 on, the semantic chunks being collected and
\* keyword_chunks being what keyword_retrieve(query) returns: the keyword
\* chunks when the semantic ones are weak and the keyword search found
\* something, the semantic chunks in every other case.
retrieve_return(keyword_chunks, chunks, chunk_scores) ==
    IF WeakSemantic(chunks, chunk_scores) /\ keyword_chunks # <<>>
    THEN [error |-> "none", chunks |-> keyword_chunks,
          scores |-> [i \in 1..Len(keyword_chunks) |-> FALLBACK_SCORE],
          sem_chunks |-> chunks, sem_scores |-> chunk_scores]
    ELSE [error |-> "none", chunks |-> chunks, scores |-> chunk_scores,
          sem_chunks |-> chunks, sem_scores |-> chunk_scores]

\* retrieve from line 62 on, hits being the pairs the search returned that
\* are not NO_MATCH.  self.texts[idx] raises IndexError for an ordinal past
\* the end of the list.
retrieve_hits(hits, texts, query) ==
    IF \E j \in 1..Len(hits) : hits[j].idx > Len(texts)
    THEN [error |-> "IndexError", chunks |-> <<>>, scores |-> <<>>,
          sem_chunks |-> <<>>, sem_scores |-> <<>>]
    ELSE retrieve_return(keyword_retrieve(texts, query, top_k),
                         [j \in 1..Len(hits) |-> texts[hits[j].idx]],
                         [j \in 1..Len(hits) |-> hits[j].score])

\* retrieve(query) on a pipeline holding an index of ntotal vectors and the
\* chunk list texts.  sem_chunks and sem_scores are the chunks and scores the
\* semantic search gave (the code's chunks and chunk_scores at line 72).
retrieve(ntotal, texts, query, sc) ==
    retrieve_hits(SelectSeq(index_search(ntotal, sc, top_k),
                            LAMBDA h : h.idx # NO_MATCH),
                  texts, query)

\* "\n\n---\n\n"
CONTEXT_SEPARATOR == <<NL, NL, "-", "-", "-", NL, NL>>

\* The same join with a blank line for separator
build_context_blank_line(chunks) == Join(<<NL, NL>>, chunks)

build_context(chunks) == Join(CONTEXT_SEPARATOR, chunks)

\* PROMPT_TEMPLATE: its three literal parts, around {context} and {question}.
\* A literal part is one fragment: the code never looks inside it.
TEMPLATE_HEAD ==
    <<"You are a campus assistant.\nAnswer ONLY using the provided context.\nIf the answer is not found in the context, reply:\n\"The information is not available on the official website.\"\n\nContext:\n">>
TEMPLATE_MID == <<"\n\nQuestion:\n">>
TEMPLATE_TAIL == <<"\n\nAnswer:">>

\* PROMPT_TEMPLATE.format(context=context, question=question)
format_prompt(context, question) ==
    TEMPLATE_HEAD \o context \o TEMPLATE_MID \o question \o TEMPLATE_TAIL

\* The answer returned when nothing was retrieved
NO_INFORMATION == <<"The information is not available on the official website.">>

\* model_answer_fn: the injected generator, a function from the prompt to a
\* text.  The stub marks its output so that it differs from every prompt.
model_answer_fn(prompt) == <<"<generated>">> \o prompt

NoAnswer == <<>>

\* generate_answer without the test of line 120
generate_answer_from_unguarded(r, question) ==
    IF r.error # "none"
    THEN [error |-> r.error, retrieved |-> r, gen_calls |-> 0,
          prompt |-> <<>>, answer |-> NoAnswer]
    ELSE [error |-> "none", retrieved |-> r, gen_calls |-> 1,
          prompt |-> format_prompt(build_context(r.chunks), question),
          answer |-> model_answer_fn(format_prompt(build_context(r.chunks), question))]

\* generate_answer from line 120 on, r being what retrieve returned or
\* raised: gen_calls counts the calls of the generator and prompt is the
\* argument of the last one.
generate_answer_from(r, question) ==
    IF r.error # "none"
    THEN [error |-> r.error, retrieved |-> r, gen_calls |-> 0,
          prompt |-> <<>>, answer |-> NoAnswer]
    ELSE IF r.chunks = <<>>
    THEN [error |-> "none", retrieved |-> r, gen_calls |-> 0,
          prompt |-> <<>>, answer |-> NO_INFORMATION]
    ELSE [error |-> "none", retrieved |-> r, gen_calls |-> 1,
          prompt |-> format_prompt(build_context(r.chunks), question),
          answer |-> model_answer_fn(format_prompt(build_context(r.chunks), question))]

\* generate_answer(question, model_answer_fn)
generate_answer(ntotal, texts, question, sc) ==
    generate_answer_from(retrieve(ntotal, texts, question, sc), question)

\* The attributes of a RAGPipeline object that are methods
RAGPipelineMethods ==
    {"retrieve", "keyword_retrieve", "build_context", "generate_answer"}

\* ------------------------------------------------------------------------
\* The inputs of the model
\* ------------------------------------------------------------------------

\* Page texts as extract_visible_text returns them: non-empty stripped lines
\* joined by single newlines, so no page holds a blank line.
PageAbab == <<"a", "b", "a", "b">>
PageDigits == <<"1", "2", "3", "4">>
PageMixed == <<"A", "B", "A", "B", " ", "a", "b", "a", "b">>
PageCdcd == <<"c", "d", "c", "d", NL, "a", "b">>
PageDcba == <<"d", "c", "b", "a">>

\* The corpus file at corpus_path: absent, or the text the scraper saved.
NoCorpusFile == [exists |-> FALSE, text |-> <<>>]
CorpusFile(pages_text) == [exists |-> TRUE, text |-> save_crawled_text(pages_text)]

CorpusFiles ==
    { NoCorpusFile,
      CorpusFile(<<>>),
      CorpusFile(<<PageDigits>>),
      CorpusFile(<<PageAbab, PageCdcd>>),
      CorpusFile(<<PageAbab, PageDigits, PageMixed, PageCdcd, PageDcba>>) }

\* The questions asked
Questions ==
    { <<"a", "b", "a", "b">>,
      <<"z", "z", "z", "z">>,
      <<"a", "b", " ", "c", "d", "1", "2">>,
      <<"A", "B", "A", "B", " ", "c", "d", "c", "d">>,
      <<" ", NL>> }

\* Every text made of at most n of the pieces, one after the other
RECURSIVE PieceStrings(_, _)
PieceStrings(pieces, n) ==
    IF n = 0 THEN {<<>>}
    ELSE LET shorter == PieceStrings(pieces, n - 1)
         IN  shorter \cup {s \o piece : s \in shorter, piece \in pieces}

\* The queries keyword_retrieve is called with: words, digits and whitespace
QueryPieces ==
    { <<"a", "b">>, <<"A", "B">>, <<"c", "d", "c", "d">>, <<"1">>, <<" ">> }
MaxQueryPieces == 4
KeywordQueries == PieceStrings(QueryPieces, MaxQueryPieces)

\* The chunk lists keyword_retrieve scans
KeywordTexts ==
    { << <<"a", "b", "a", "b", "a", "b">>,
         <<"c", "d", "c", "d", " ", "a", "b", "1">>,
         <<"A", "B", "a", "b", " ", "c", "d", "c", "d", NL, "a", "b", "a", "b">>,
         <<"d", "c", "b", "a">>,
         <<"a", "b", "a", "b">> >>,
      << <<"a", "b", "1", "a", "b", "1", "a", "b">>, <<"z", "z">> >>,
      << >> }

\* The corpus texts load_corpus_text is called with: letters, symbols,
\* whitespace and a run of nine symbols, which with one letter makes a block
\* whose alphabetic ratio is exactly one tenth.
RawPieces ==
    { <<"a">>, <<"=">>, <<" ">>, <<NL>>, Repeat("=", 9) }
MaxRawPieces == 5
RawTexts == PieceStrings(RawPieces, MaxRawPieces)

\* The page lists the scraper saves
CrawledPages == {PageAbab, PageDigits, PageCdcd, <<>>}
PageLists ==
    {<<>>} \cup {<<p>> : p \in CrawledPages}
           \cup {<<p, q>> : p \in CrawledPages, q \in CrawledPages}

\* The number of runs of create_vector_store
MaxBuilds == 2

\* The web crawl_website crawls.  The site answers under two schemes; a
\* request for one of its paths fails (a connection error or an error
\* status), brings something that is not HTML, or brings an HTML page.
SiteNetloc == "campus.example"
SiteUrl(scheme, path, fragment) ==
    [scheme |-> scheme, netloc |-> SiteNetloc, path |-> path, fragment |-> fragment]
RelativeHref(path, fragment) ==
    [scheme |-> "", netloc |-> "", path |-> path, fragment |-> fragment]

RequestFails == [kind |-> "RequestException", content_type |-> "", lines |-> <<>>, hrefs |-> <<>>]
NotHtml == [kind |-> "ok", content_type |-> "application/pdf", lines |-> <<>>, hrefs |-> <<>>]
HtmlPage(lines, hrefs) ==
    [kind |-> "ok", content_type |-> "text/html", lines |-> lines, hrefs |-> hrefs]

\* A page that links to the other pages, to one of them twice, and to a part
\* of itself
HubPage ==
    HtmlPage(<< <<" ", "a", "b", " ">>, <<" ">>, <<"c", "d">> >>,
             << RelativeHref("/a", ""), RelativeHref("", "top"),
                RelativeHref("/a", "part"), RelativeHref("/b", "sec") >>)
\* A page that links back to the start, under both schemes, to another site,
\* to a mail address and to a document that is not on the site
BackPage ==
    HtmlPage(<< <<"a", "b", "a", "b">> >>,
             << RelativeHref("/", ""),
                SiteUrl("https", "/", "top"),
                [scheme |-> "http", netloc |-> "other.example", path |-> "/", fragment |-> ""],
                [scheme |-> "mailto", netloc |-> "", path |-> "office", fragment |-> ""],
                [scheme |-> "ftp", netloc |-> SiteNetloc, path |-> "/a", fragment |-> ""],
                RelativeHref("/b", ""), RelativeHref("/missing", "") >>)
LeafPage == HtmlPage(<< <<"1", "2">> >>, <<>>)

SitePaths == {"/", "/a", "/b"}
Responses == {RequestFails, NotHtml, HubPage, BackPage, LeafPage}
Webs == [SitePaths -> Responses]
BaseUrls ==
    {SiteUrl("http", "/", ""), SiteUrl("http", "/", "top"), SiteUrl("http", "/a", "top")}

\* The values of max_pages: argparse takes any integer
MaxMaxPages == 3
MaxPagesValues == (-1)..MaxMaxPages

\* ------------------------------------------------------------------------
\* State
\* ------------------------------------------------------------------------

VARIABLES
    indexFile,      \* the file at index_path
    textsFile,      \* the file at texts_path
    builds,         \* runs of create_vector_store started so far
    bpc,            \* where the running create_vector_store is, or how it ended
    bTexts,         \* create_vector_store's texts
    bCorpus,        \* the corpus file the last run of create_vector_store read
    apc,            \* where the application is
    loadedIndex,    \* load_index_and_texts's index, read and not yet returned
    rag,            \* the RAGPipeline object
    ask,            \* the last question and what answering it did
    chat_history,   \* st.session_state.chat_history
    kw,             \* a call of keyword_retrieve: its arguments, scored, its result
    loader,         \* a corpus file and what load_corpus_text returned for it
    crawl           \* a call of crawl_website: its arguments, its locals, the
                    \* web it crawls and the requests it has made

vars == <<indexFile, textsFile, builds, bpc, bTexts, bCorpus,
          apc, loadedIndex, rag, ask, chat_history, kw, loader, crawl>>

\* A file: absent, opened for writing and not yet complete, or complete.
\* build is the run of create_vector_store that wrote it (0: none of them) and
\* data the chunk texts it holds; the index file holds one vector per text
\* of data, in that order.
AbsentFile == [st |-> "absent", build |-> 0, data |-> <<>>]
PartialFile(b) == [st |-> "partial", build |-> b, data |-> <<>>]
CompleteFile(b, texts) == [st |-> "complete", build |-> b, data |-> texts]

\* Path.exists()
Exists(file) == file.st # "absent"

NoRag == [loaded |-> FALSE, index |-> AbsentFile, texts |-> AbsentFile]

NoAsk == [called |-> FALSE, question |-> <<>>, show_context |-> FALSE,
          error |-> "none", sem_chunks |-> <<>>, sem_scores |-> <<>>,
          chunks |-> <<>>, scores |-> <<>>, gen_calls |-> 0,
          prompt |-> <<>>, answer |-> NoAnswer, context |-> <<>>,
          returned |-> "nothing"]

NoKeywordCall == [pc |-> "off", texts |-> <<>>, query |-> <<>>,
                  scored |-> <<>>, result |-> <<>>]

NoCorpusLoad == [pc |-> "off", raw |-> <<>>, pages |-> <<>>,
                 chunks |-> <<>>, again |-> <<>>]

NoCrawl == [pc |-> "off", base_url |-> NoUrl, max_pages |-> 0, web |-> <<>>,
            visited |-> {}, queue |-> <<>>, pages_text |-> <<>>,
            requests |-> <<>>]

BuilderStopped == {"idle", "FileNotFoundError", "ValueError", "done"}

\* The store directory starts empty, or holds a store that was put there by
\* other means: an index without vectors beside an empty chunk array.
SystemInitWith(stores) ==
    /\ \E store \in stores : indexFile = store /\ textsFile = store
    /\ builds = 0
    /\ bpc = "idle"
    /\ bTexts = <<>>
    /\ bCorpus = NoCorpusFile
    /\ apc = "start"
    /\ loadedIndex = AbsentFile
    /\ rag = NoRag
    /\ ask = NoAsk
    /\ chat_history = <<>>

Init ==
    /\ SystemInitWith({AbsentFile, CompleteFile(0, <<>>)})
    /\ kw = NoKeywordCall
    /\ loader = NoCorpusLoad
    /\ crawl = NoCrawl

pureVars == <<kw, loader, crawl>>

\* ------------------------------------------------------------------------
\* embeddings/vector_store.py: create_vector_store and save_index
\* ------------------------------------------------------------------------

appVars == <<apc, loadedIndex, rag, ask, chat_history>>

\* create_vector_store without the test of lines 99-100
create_vector_store_unchecked(corpus) ==
    /\ bpc \in BuilderStopped
    /\ builds < MaxBuilds
    /\ builds' = builds + 1
    /\ bCorpus' = corpus
    /\ IF ~corpus.exists
       THEN bpc' = "FileNotFoundError" /\ bTexts' = <<>>
       ELSE bpc' = "save_index" /\ bTexts' = load_corpus_text(corpus.text)
    /\ UNCHANGED <<indexFile, textsFile, appVars, pureVars>>

\* create_vector_store up to the call of save_index (lines 92-103): the corpus
\* is read and chunked, and the embeddings and the index are built in memory.
create_vector_store(corpus) ==
    /\ bpc \in BuilderStopped
    /\ builds < MaxBuilds
    /\ builds' = builds + 1
    /\ bCorpus' = corpus
    /\ IF ~corpus.exists
       THEN bpc' = "FileNotFoundError" /\ bTexts' = <<>>
       ELSE LET texts == load_corpus_text(corpus.text)
            IN  IF texts = <<>>
                THEN bpc' = "ValueError" /\ bTexts' = <<>>
                ELSE bpc' = "save_index" /\ bTexts' = texts
    /\ UNCHANGED <<indexFile, textsFile, appVars, pureVars>>

\* faiss.write_index opens index_path for writing: the file is truncated
save_index_open_index ==
    /\ bpc = "save_index"
    /\ indexFile' = PartialFile(builds)
    /\ bpc' = "index_open"
    /\ UNCHANGED <<textsFile, builds, bTexts, bCorpus, appVars, pureVars>>

\* faiss.write_index has written the index and closed the file
save_index_write_index ==
    /\ bpc = "index_open"
    /\ indexFile' = CompleteFile(builds, bTexts)
    /\ bpc' = "save_texts"
    /\ UNCHANGED <<textsFile, builds, bTexts, bCorpus, appVars, pureVars>>

\* np.save opens texts_path for writing: the file is truncated
save_index_open_texts ==
    /\ bpc = "save_texts"
    /\ textsFile' = PartialFile(builds)
    /\ bpc' = "texts_open"
    /\ UNCHANGED <<indexFile, builds, bTexts, bCorpus, appVars, pureVars>>

\* np.save has written the array and closed the file; create_vector_store
\* returns
save_index_write_texts ==
    /\ bpc = "texts_open"
    /\ textsFile' = CompleteFile(builds, bTexts)
    /\ bpc' = "done"
    /\ UNCHANGED <<indexFile, builds, bTexts, bCorpus, appVars, pureVars>>

\* ------------------------------------------------------------------------
\* app.py: main and _load_rag; RAGPipeline.__init__; load_index_and_texts
\* ------------------------------------------------------------------------

buildVars == <<indexFile, textsFile, builds, bpc, bTexts, bCorpus>>

\* main, lines 97-99 and 134-136: without both files it tells the user to
\* generate the vector store and returns.
main_check_index ==
    /\ apc = "start"
    /\ apc' = IF Exists(indexFile) /\ Exists(textsFile) THEN "load_rag" ELSE "no_index"
    /\ UNCHANGED <<pureVars, buildVars, loadedIndex, rag, ask, chat_history>>

\* __init__ without the test of lines 39-43
RAGPipeline_init_unchecked ==
    /\ apc \in {"start", "load_rag"}
    /\ apc' = "read_index"
    /\ UNCHANGED <<pureVars, buildVars, loadedIndex, rag, ask, chat_history>>

\* _load_rag calls RAGPipeline(config), from main (line 138) or on its own.
\* __init__, lines 37-43: without both files it raises FileNotFoundError, which
\* _load_rag turns into None and main into "Failed to load RAG pipeline."
RAGPipeline_init ==
    /\ apc \in {"start", "load_rag"}
    /\ apc' = IF ~Exists(indexFile) \/ ~Exists(textsFile)
              THEN "load_failed" ELSE "read_index"
    /\ UNCHANGED <<pureVars, buildVars, loadedIndex, rag, ask, chat_history>>

\* load_index_and_texts, line 72: faiss.read_index.  An index file that is
\* still being written does not parse, and the error is none _load_rag catches.
load_index ==
    /\ apc = "read_index"
    /\ IF indexFile.st = "complete"
       THEN loadedIndex' = indexFile /\ apc' = "read_texts"
       ELSE loadedIndex' = loadedIndex /\ apc' = "crashed"
    /\ UNCHANGED <<pureVars, buildVars, rag, ask, chat_history>>

\* load_index_and_texts, lines 73-75: np.load, and the pair is returned to
\* __init__, which keeps it (lines 45-48).
load_texts ==
    /\ apc = "read_texts"
    /\ IF textsFile.st = "complete"
       THEN /\ rag' = [loaded |-> TRUE, index |-> loadedIndex, texts |-> textsFile]
            /\ apc' = "ready"
       ELSE rag' = rag /\ apc' = "crashed"
    /\ UNCHANGED <<pureVars, buildVars, loadedIndex, ask, chat_history>>

\* main, lines 151-164, with "show context" unchecked, g being what
\* generate_answer returned or raised: the question and the answer are
\* appended to the chat history.
main_ask_done(question, g) ==
    /\ ask' = [called |-> TRUE, question |-> question,
               show_context |-> FALSE, error |-> g.error,
               sem_chunks |-> g.retrieved.sem_chunks,
               sem_scores |-> g.retrieved.sem_scores,
               chunks |-> g.retrieved.chunks,
               scores |-> g.retrieved.scores,
               gen_calls |-> g.gen_calls, prompt |-> g.prompt,
               answer |-> g.answer, context |-> <<>>,
               returned |-> IF g.error = "none" THEN "answer" ELSE "nothing"]
    /\ IF g.error = "none"
       THEN /\ apc' = "answered"
            /\ chat_history' = chat_history \o
                 << [role |-> "You", text |-> question, context |-> "None"],
                    [role |-> "Assistant", text |-> g.answer, context |-> "None"] >>
       ELSE /\ apc' = "crashed"
            /\ chat_history' = chat_history

main_ask(question, sc) ==
    /\ apc = "ready"
    /\ Strip(question) # <<>>
    /\ main_ask_done(question,
            generate_answer(Len(rag.index.data), rag.texts.data, question, sc))
    /\ UNCHANGED <<pureVars, buildVars, loadedIndex, rag>>

\* main, lines 151-156, with "show context" checked:
\* rag.generate_answer_with_context is looked up on the RAGPipeline object,
\* which has no such attribute, and the lookup raises AttributeError.
main_ask_with_context(question) ==
    /\ apc = "ready"
    /\ Strip(question) # <<>>
    /\ "generate_answer_with_context" \notin RAGPipelineMethods
    /\ ask' = [NoAsk EXCEPT !.called = TRUE, !.question = question,
                            !.show_context = TRUE, !.error = "AttributeError"]
    /\ apc' = "crashed"
    /\ UNCHANGED <<pureVars, buildVars, loadedIndex, rag, chat_history>>

Next ==
    \/ \E corpus \in CorpusFiles : create_vector_store(corpus)
    \/ save_index_open_index
    \/ save_index_write_index
    \/ save_index_open_texts
    \/ save_index_write_texts
    \/ main_check_index
    \/ RAGPipeline_init
    \/ load_index
    \/ load_texts
    \/ \E question \in Questions :
         \E sc \in [1..Len(rag.index.data) -> ScoreLevels] : main_ask(question, sc)
    \/ \E question \in Questions : main_ask_with_context(question)

Spec == Init /\ [][Next]_vars

\* ------------------------------------------------------------------------
\* keyword_retrieve on its own
\* ------------------------------------------------------------------------

systemVars == <<indexFile, textsFile, builds, bpc, bTexts, bCorpus,
                apc, loadedIndex, rag, ask, chat_history>>

KeywordInit ==
    /\ SystemInitWith({AbsentFile})
    /\ loader = NoCorpusLoad
    /\ crawl = NoCrawl
    /\ \E texts \in KeywordTexts, query \in KeywordQueries :
           kw = [NoKeywordCall EXCEPT !.pc = "call", !.texts = texts, !.query = query]

\* keyword_retrieve(query) with self.texts = kw.texts, up to line 103: scored
\* holds the (score, text) pairs
keyword_retrieve_score ==
    /\ kw.pc = "call"
    /\ kw' = [kw EXCEPT !.pc = "scored",
                        !.scored = scored_chunks(kw.texts, query_terms(kw.query))]
    /\ UNCHANGED <<systemVars, loader, crawl>>

\* keyword_retrieve returns
keyword_retrieve_return ==
    /\ kw.pc = "scored"
    /\ kw' = [kw EXCEPT !.pc = "returned",
                        !.result = keyword_retrieve(kw.texts, kw.query, top_k)]
    /\ UNCHANGED <<systemVars, loader, crawl>>

KeywordNext ==
    \/ keyword_retrieve_score
    \/ keyword_retrieve_return

SpecKeyword == KeywordInit /\ [][KeywordNext]_vars

\* ------------------------------------------------------------------------
\* save_crawled_text and load_corpus_text on their own
\* ------------------------------------------------------------------------

CorpusInit ==
    /\ SystemInitWith({AbsentFile})
    /\ kw = NoKeywordCall
    /\ crawl = NoCrawl
    /\ loader = [NoCorpusLoad EXCEPT !.pc = "write"]

\* scraper main, line 131: the crawled pages are saved to the corpus file
scraper_save(pages_text) ==
    /\ loader.pc = "write"
    /\ loader' = [loader EXCEPT !.pc = "crawled", !.pages = pages_text,
                                !.raw = save_crawled_text(pages_text)]
    /\ UNCHANGED <<systemVars, kw, crawl>>

\* the corpus file holds a text that comes from elsewhere
corpus_written(raw) ==
    /\ loader.pc = "write"
    /\ loader' = [loader EXCEPT !.pc = "written", !.raw = raw]
    /\ UNCHANGED <<systemVars, kw, crawl>>

\* load_corpus_text(text_path)
load_corpus ==
    /\ loader.pc \in {"crawled", "written"}
    /\ loader' = [loader EXCEPT !.pc = "loaded_" \o loader.pc,
                                !.chunks = load_corpus_text(loader.raw)]
    /\ UNCHANGED <<systemVars, kw, crawl>>

\* load_corpus_text(text_path) once more, the file being the same
load_corpus_again ==
    /\ loader.pc \in {"loaded_crawled", "loaded_written"}
    /\ loader' = [loader EXCEPT !.pc = "re" \o loader.pc,
                                !.again = load_corpus_text(loader.raw)]
    /\ UNCHANGED <<systemVars, kw, crawl>>

CorpusNext ==
    \/ \E pages_text \in PageLists : scraper_save(pages_text)
    \/ \E raw \in RawTexts : corpus_written(raw)
    \/ load_corpus
    \/ load_corpus_again

SpecCorpus == CorpusInit /\ [][CorpusNext]_vars

\* ------------------------------------------------------------------------
\* crawl_website on its own
\* ------------------------------------------------------------------------

\* crawl_website(base_url, max_pages), lines 48-53
CrawlInit ==
    /\ SystemInitWith({AbsentFile})
    /\ kw = NoKeywordCall
    /\ loader = NoCorpusLoad
    /\ \E base_url \in BaseUrls, max_pages \in MaxPagesValues, web \in Webs :
           crawl = [pc |-> "loop", base_url |-> base_url, max_pages |-> max_pages,
                    web |-> web, visited |-> {}, queue |-> <<base_url>>,
                    pages_text |-> <<>>, requests |-> <<>>]

\* urlparse(base_url).netloc
base_netloc == crawl.base_url.netloc

\* what requests.get(url) and raise_for_status bring: a path the site does
\* not have is an error status
Response(url) ==
    IF url.path \in DOMAIN crawl.web THEN crawl.web[url.path] ELSE RequestFails

\* The same condition with <= for <
loop_condition_inclusive ==
    crawl.queue # <<>> /\ Cardinality(crawl.visited) <= crawl.max_pages

\* while queue and len(visited) < max_pages
loop_condition ==
    crawl.queue # <<>> /\ Cardinality(crawl.visited) < crawl.max_pages

\* url = _normalize_url(queue.popleft())
popped_url == normalize_url(Head(crawl.queue))

\* lines 56-58: the URL taken from the queue was visited before
crawl_skip_visited ==
    /\ crawl.pc = "loop"
    /\ loop_condition
    /\ popped_url \in crawl.visited
    /\ crawl' = [crawl EXCEPT !.queue = Tail(crawl.queue)]
    /\ UNCHANGED <<systemVars, kw, loader>>

\* lines 56-66: the URL is new, it is requested and the request fails
crawl_request_failed ==
    /\ crawl.pc = "loop"
    /\ loop_condition
    /\ popped_url \notin crawl.visited
    /\ Response(popped_url).kind = "RequestException"
    /\ crawl' = [crawl EXCEPT !.queue = Tail(crawl.queue),
                              !.visited = crawl.visited \cup {popped_url},
                              !.requests = Append(crawl.requests, popped_url)]
    /\ UNCHANGED <<systemVars, kw, loader>>

\* lines 56-71: the URL is new, it is requested and what comes is not HTML
crawl_not_html ==
    /\ crawl.pc = "loop"
    /\ loop_condition
    /\ popped_url \notin crawl.visited
    /\ Response(popped_url).kind = "ok"
    /\ Response(popped_url).content_type # "text/html"
    /\ crawl' = [crawl EXCEPT !.queue = Tail(crawl.queue),
                              !.visited = crawl.visited \cup {popped_url},
                              !.requests = Append(crawl.requests, popped_url)]
    /\ UNCHANGED <<systemVars, kw, loader>>

\* lines 56-88: the URL is new, it is requested and a page comes: its text is
\* kept and its links are queued
crawl_page ==
    /\ crawl.pc = "loop"
    /\ loop_condition
    /\ popped_url \notin crawl.visited
    /\ Response(popped_url).kind = "ok"
    /\ Response(popped_url).content_type = "text/html"
    /\ crawl' = [crawl EXCEPT
            !.visited = crawl.visited \cup {popped_url},
            !.requests = Append(crawl.requests, popped_url),
            !.pages_text = Append(crawl.pages_text,
                                  extract_visible_text(Response(popped_url))),
            !.queue = queue_links(Tail(crawl.queue), Response(popped_url).hrefs,
                                  popped_url, base_netloc,
                                  crawl.visited \cup {popped_url})]
    /\ UNCHANGED <<systemVars, kw, loader>>

\* line 90: the loop is over and pages_text is returned
crawl_return ==
    /\ crawl.pc = "loop"
    /\ ~loop_condition
    /\ crawl' = [crawl EXCEPT !.pc = "returned"]
    /\ UNCHANGED <<systemVars, kw, loader>>

CrawlNext ==
    \/ crawl_skip_visited
    \/ crawl_request_failed
    \/ crawl_not_html
    \/ crawl_page
    \/ crawl_return

\* crawl_website is a sequential function: while it has a step to take it
\* takes one
SpecCrawl == CrawlInit /\ [][CrawlNext]_vars /\ WF_vars(CrawlNext)

\* ------------------------------------------------------------------------
\* Properties
\* ------------------------------------------------------------------------

\* A question was answered through generate_answer and nothing was raised
Answered == ask.called /\ ~ask.show_context /\ ask.error = "none"

\* The semantic search found something and its best score reaches 0.15
C1_SemanticStrong ==
    /\ ask.sem_chunks # <<>>
    /\ \E j \in 1..Len(ask.sem_scores) : ask.sem_scores[j] >= 15

\* C1: retrieve returns the semantic chunks exactly when there are some and
\* the best score is at least 0.15; in every other case it returns what the
\* keyword search returns, which is empty when no chunk has a keyword score
\* above 0, and never a semantic chunk.
C1_FallbackTrigger ==
    Answered =>
        IF C1_SemanticStrong
        THEN ask.chunks = ask.sem_chunks /\ ask.scores = ask.sem_scores
        ELSE ask.chunks = keyword_retrieve(rag.texts.data, ask.question, top_k)

\* C2: whenever retrieval yields no chunk, generate_answer returns the fixed
\* sentence and the generator is not called.
C2_NoContextGuard ==
    (Answered /\ ask.chunks = <<>>) =>
        /\ ask.answer = <<"The information is not available on the official website.">>
        /\ ask.gen_calls = 0
        /\ ask.prompt = <<>>

C2_Witness ==
    /\ Answered
    /\ ask.chunks = <<>>
    /\ ask.gen_calls = 0
    /\ Len(chat_history) = 2

\* C3: at every point of a rebuild the index file and the chunk file are
\* complete and of one build, and a pipeline never holds an index and a
\* chunk list of different builds.
C3_PairOfOneBuild ==
    /\ indexFile.st # "partial"
    /\ textsFile.st # "partial"
    /\ indexFile.build = textsFile.build
    /\ rag.loaded => rag.index.build = rag.texts.build

\* C4: every pipeline that was initialized holds as many vectors as chunk
\* texts.
C4_LoadedSizesAgree ==
    rag.loaded => Len(rag.index.data) = Len(rag.texts.data)

\* C5: a run of create_vector_store whose corpus yields no chunk ends in the
\* error, and neither file is opened or written by it; no run leaves an index
\* without vectors or an empty chunk file.
C5_EmptyCorpusRejected ==
    /\ (builds > 0 /\ bCorpus.exists /\ load_corpus_text(bCorpus.text) = <<>>) =>
            /\ bpc = "ValueError"
            /\ indexFile.build # builds
            /\ textsFile.build # builds
    /\ \A f \in {indexFile, textsFile} :
            (f.build > 0 /\ f.st = "complete") => f.data # <<>>

\* A store was built, and the next run, on a corpus file that holds text
\* and no chunk, failed and left it as it was.
C5_Witness ==
    /\ bpc = "ValueError"
    /\ bCorpus.text # <<>>
    /\ indexFile.st = "complete" /\ indexFile.build > 0
    /\ textsFile.st = "complete" /\ textsFile.build = indexFile.build
    /\ indexFile.build < builds

\* C6: a question asked with "show context" checked returns the pair of the
\* answer generate_answer gives and the context of the prompt.
C6_ContextMode ==
    (ask.called /\ ask.show_context) =>
        /\ ask.error = "none"
        /\ ask.returned = "answer and context"
        /\ ask.context = build_context(ask.chunks)
        /\ ask.answer = IF ask.chunks = <<>> THEN NO_INFORMATION
                        ELSE model_answer_fn(ask.prompt)

\* The context the claim describes: the chunks in order, the separator
\* between each two
RECURSIVE C8_Context(_)
C8_Context(chunks) ==
    IF Len(chunks) = 1 THEN chunks[1]
    ELSE C8_Context(SubSeq(chunks, 1, Len(chunks) - 1))
            \o <<NL, NL, "-", "-", "-", NL, NL>> \o chunks[Len(chunks)]

\* C8: whenever retrieval yields a chunk, the generator is called once, with
\* the template in which the context is the chunks in rank order joined by
\* the separator and the question is the question as asked, and its output is
\* the answer.
C8_PromptAndAnswer ==
    (Answered /\ ask.chunks # <<>>) =>
        /\ ask.gen_calls = 1
        /\ ask.prompt =
              <<"You are a campus assistant.\nAnswer ONLY using the provided context.\nIf the answer is not found in the context, reply:\n\"The information is not available on the official website.\"\n\nContext:\n">>
              \o C8_Context(ask.chunks)
              \o <<"\n\nQuestion:\n">> \o ask.question \o <<"\n\nAnswer:">>
        /\ ask.answer = model_answer_fn(ask.prompt)
        /\ chat_history[Len(chat_history)].text = ask.answer

C8_Witness ==
    /\ Answered
    /\ Len(ask.chunks) = 3
    /\ ask.gen_calls = 1
    /\ ask.scores = <<100, 100, 100>>

\* C10: RAGPipeline.__init__ with the index file or the chunk file missing
\* fails before anything is read, no pipeline comes out of it, and the
\* application stops there: nothing is loaded later and no question is
\* answered.
C10_MissingStoreRejected ==
    [][ /\ ( /\ apc \in {"start", "load_rag"}
             /\ apc' \in {"load_failed", "read_index"}
             /\ (~Exists(indexFile) \/ ~Exists(textsFile)) )
           => (apc' = "load_failed" /\ ~rag'.loaded /\ loadedIndex' = AbsentFile)
        /\ apc = "load_failed"
           => (apc' = "load_failed" /\ ~rag'.loaded /\ ~ask'.called
                 /\ loadedIndex' = AbsentFile /\ chat_history' = <<>>)
      ]_vars

\* The index file is there and the chunk file is not, and the load failed
C10_Witness ==
    /\ apc = "load_failed"
    /\ Exists(indexFile)
    /\ ~Exists(textsFile)
    /\ ~rag.loaded

\* The k-th smallest member of a set of numbers
KthOf(S, k) == CHOOSE x \in S : Cardinality({y \in S : y < x}) = k - 1

\* The positions at which a whitespace-separated token of the query starts,
\* and the token starting there
C7_TokenStarts(query) ==
    {b \in 1..Len(query) : ~IsSpace(query[b]) /\ (b = 1 \/ IsSpace(query[b - 1]))}

C7_Token(query, b) ==
    LET ends == {e \in b..Len(query) : \A i \in b..e : ~IsSpace(query[i])}
    IN  SubSeq(query, b, SetMax(ends))

\* A token takes part: at least 4 characters, all of them alphabetic
C7_TakesPart(w) == Len(w) >= 4 /\ \A i \in 1..Len(w) : IsAlpha(w[i])

C7_PartStarts(query) ==
    {b \in C7_TokenStarts(query) : C7_TakesPart(C7_Token(query, b))}

\* The places where the token occurs in the chunk, letter case set aside, and
\* the occurrence count: the most occurrences that do not overlap
C7_Matches(text, w) ==
    {i \in 1..(Len(text) - Len(w) + 1) :
        \A j \in 1..Len(w) : LowerChar(text[i + j - 1]) = LowerChar(w[j])}

C7_Apart(P, n) == \A x \in P : \A y \in P : x < y => y - x >= n

C7_Count(text, w) ==
    SetMax({Cardinality(P) : P \in {Q \in SUBSET C7_Matches(text, w) : C7_Apart(Q, Len(w))}})

\* The sum of the counts over the tokens that take part
C7_Score(text, query) ==
    Cardinality(UNION {{<<b, k>> : k \in 1..C7_Count(text, C7_Token(query, b))} :
                            b \in C7_PartStarts(query)})

C7_Positive(texts, query) ==
    {i \in 1..Len(texts) : C7_Score(texts[i], query) > 0}

\* C7: the chunks keyword_retrieve scores are those whose score is positive,
\* the score being the sum over the query's tokens of at least 4 characters,
\* all alphabetic, of the token's case-insensitive occurrence count in the
\* chunk; a query without such a token yields the empty result.
C7_KeywordScoring ==
    /\ kw.pc \in {"scored", "returned"} =>
          /\ Len(kw.scored) = Cardinality(C7_Positive(kw.texts, kw.query))
          /\ \A k \in 1..Len(kw.scored) :
                LET i == KthOf(C7_Positive(kw.texts, kw.query), k)
                IN  /\ kw.scored[k].text = kw.texts[i]
                    /\ kw.scored[k].score = C7_Score(kw.texts[i], kw.query)
    /\ kw.pc = "returned" =>
          /\ C7_PartStarts(kw.query) = {} => kw.result = <<>>
          /\ \A k \in 1..Len(kw.result) : C7_Score(kw.result[k], kw.query) > 0
          /\ kw.scored # <<>> => kw.result # <<>>

\* A query with a token of 5 characters that holds a digit and a token that
\* takes part: two chunks hold the second
C7_Witness ==
    /\ kw.pc = "returned"
    /\ kw.query = <<"c", "d", "c", "d", "1", " ", "c", "d", "c", "d">>
    /\ Len(kw.result) = 2
    /\ kw.scored[1].score = 1

\* The keyword score of every chunk, by ordinal
C11_Scores(texts, query) == [i \in 1..Len(texts) |-> C7_Score(texts[i], query)]

\* Chunk i comes before chunk j: a higher score, or the same score and a
\* lower ordinal
C11_Before(sc, i, j) == sc[i] > sc[j] \/ (sc[i] = sc[j] /\ i < j)

\* The choices of n ordinals among the chunks of positive score such that
\* each comes before the next and every chunk of positive score left out
\* comes after all of them
C11_Ranked(sc, n) ==
    LET positive == {i \in DOMAIN sc : sc[i] > 0}
    IN  {p \in [1..n -> positive] :
            /\ \A k \in 1..(n - 1) : C11_Before(sc, p[k], p[k + 1])
            /\ \A j \in positive \ {p[k] : k \in 1..n} :
                   \A k \in 1..n : C11_Before(sc, p[k], j)}

C11_RankedResult(texts, sc, result) ==
    /\ Len(result) = IF Cardinality({i \in DOMAIN sc : sc[i] > 0}) < top_k
                     THEN Cardinality({i \in DOMAIN sc : sc[i] > 0})
                     ELSE top_k
    /\ \E p \in C11_Ranked(sc, Len(result)) :
           \A k \in 1..Len(result) : result[k] = texts[p[k]]

\* C11: keyword_retrieve returns the chunks of positive keyword score only,
\* by descending score with chunks of equal score in the order of their
\* ordinals, cut to the first top_k; no chunk left out has a higher score
\* than a chunk returned.
C11_KeywordRanking ==
    kw.pc = "returned" =>
        C11_RankedResult(kw.texts, C11_Scores(kw.texts, kw.query), kw.result)

\* Four of five chunks hold a term of the query: the third, of score 3, comes
\* first, the first and second, of score 1, follow in their order, and the
\* fifth, of score 1 too, is cut off
C11_Witness ==
    /\ kw.pc = "returned"
    /\ Len(kw.texts) = 5
    /\ C11_Scores(kw.texts, kw.query) = <<1, 1, 3, 0, 1>>
    /\ kw.result = <<kw.texts[3], kw.texts[1], kw.texts[2]>>

\* The places where load_corpus_text cuts the text: a pair of newlines that
\* starts an even number of characters after the start of its run of newlines
C9_RunStart(raw, i) ==
    SetMin({j \in 1..i : \A m \in j..i : raw[m] = NL})

C9_Cuts(raw) ==
    {i \in 1..(Len(raw) - 1) :
        raw[i] = NL /\ raw[i + 1] = NL /\ (i - C9_RunStart(raw, i)) % 2 = 0}

\* The blocks between the cuts, by their first position; a block may be empty
C9_BlockStarts(raw) == {1} \cup {c + 2 : c \in C9_Cuts(raw)}

C9_BlockEnd(raw, b) ==
    SetMin({c \in C9_Cuts(raw) : c >= b} \cup {Len(raw) + 1}) - 1

\* The characters of a block that are not whitespace, and the trimmed block
C9_Ink(raw, b) == {i \in b..C9_BlockEnd(raw, b) : ~IsSpace(raw[i])}

C9_Trimmed(raw, b) == SubSeq(raw, SetMin(C9_Ink(raw, b)), SetMax(C9_Ink(raw, b)))

C9_Letters(block) == Cardinality({i \in 1..Len(block) : IsAlpha(block[i])})

\* The blocks that become chunks: not empty once trimmed, and not dropped,
\* a block being dropped iff ten times its letters are fewer than its length
C9_KeptStarts(raw) ==
    {b \in C9_BlockStarts(raw) :
        /\ C9_Ink(raw, b) # {}
        /\ ~(10 * C9_Letters(C9_Trimmed(raw, b)) < Len(C9_Trimmed(raw, b)))}

\* C9: load_corpus_text returns, in their order, the trimmed non-empty blocks
\* between blank lines whose letters are at least a tenth of their characters;
\* the scraper's separator line is none of them; a second call on the same
\* file returns the same chunks.
C9_CorpusChunks ==
    /\ loader.pc \in {"loaded_crawled", "loaded_written",
                      "reloaded_crawled", "reloaded_written"} =>
          /\ Len(loader.chunks) = Cardinality(C9_KeptStarts(loader.raw))
          /\ \A k \in 1..Len(loader.chunks) :
                loader.chunks[k] =
                    C9_Trimmed(loader.raw, KthOf(C9_KeptStarts(loader.raw), k))
          /\ \A k \in 1..Len(loader.chunks) :
                loader.chunks[k] # [i \in 1..80 |-> "="]
    /\ loader.pc \in {"reloaded_crawled", "reloaded_written"} =>
          loader.again = loader.chunks

\* Two pages were saved with the separator between them, one of them without
\* a letter, and the file was loaded twice
C9_Witness ==
    /\ loader.pc = "reloaded_crawled"
    /\ loader.pages = <<PageAbab, PageDigits>>
    /\ Len(loader.raw) = 4 + 84 + 4
    /\ loader.chunks = <<PageAbab>>

\* max_pages when it is a count, 0 when it is negative
C12_Limit == IF crawl.max_pages < 0 THEN 0 ELSE crawl.max_pages

\* The requests made so far and the pages kept are within the limit n, no URL
\* was requested twice and none was requested with a fragment
C12_Within(n) ==
    /\ Cardinality(crawl.visited) <= n
    /\ Len(crawl.requests) <= n
    /\ Len(crawl.pages_text) <= n
    /\ \A i \in 1..Len(crawl.requests) :
          /\ crawl.requests[i].fragment = ""
          /\ \A j \in 1..Len(crawl.requests) :
                 crawl.requests[i] = crawl.requests[j] => i = j

\* A step that makes a request makes one, for a URL without fragment that
\* was not in visited before the step
C12_RequestsNew ==
    crawl'.requests # crawl.requests =>
        \E url \in crawl'.visited \ crawl.visited :
            /\ url.fragment = ""
            /\ crawl'.requests = Append(crawl.requests, url)

\* C12 as stated: in every state of crawl_website visited holds at most
\* max_pages URLs and every request is for a URL without fragment that was
\* not in visited before; no URL is requested twice, at most max_pages
\* requests are made, at most max_pages page texts are returned, and the
\* loop ends.
C12_BoundedByMaxPages ==
    /\ [](crawl.pc # "off" => C12_Within(crawl.max_pages))
    /\ [][C12_RequestsNew]_vars
    /\ <>(crawl.pc = "returned")

\* C12, amended: the same with the limit max(max_pages, 0).
C12_BoundedCrawl ==
    /\ [](crawl.pc # "off" => C12_Within(C12_Limit))
    /\ [][C12_RequestsNew]_vars
    /\ <>(crawl.pc = "returned")

\* A crawl from a URL with a fragment over pages that link to each other:
\* it stops at max_pages requests with URLs left in the queue, one request
\* having brought no page
C12_Witness ==
    /\ crawl.pc = "returned"
    /\ crawl.base_url.fragment # ""
    /\ crawl.max_pages = 3
    /\ Len(crawl.requests) = 3
    /\ Len(crawl.pages_text) = 2
    /\ crawl.queue # <<>>
    /\ \E i \in 1..Len(crawl.queue) : crawl.queue[i] \in crawl.visited

====
